---- MODULE Spec2Model ----
(***************************************************************************)
(* ggda: Generator[T] (field resolution and auto-synthesis) and Builder[T] *)
(* (prototype defaults and post-fill modifiers).                           *)
(*                                                                         *)
(* One Builder b and its Generator b.gen are modelled; the Generator       *)
(* methods act on b.gen.  Every method call is one atomic action, a panic  *)
(* of the Go runtime or of package reflect is an outcome of the call.      *)
(* Strings are sequences of one-character strings.                         *)
(***************************************************************************)
EXTENDS Integers, Sequences, FiniteSets

VARIABLES
  T,          \* the type parameter of Generator[T] and Builder[T]
  defaults,   \* b.gen.defaults
  customs,    \* b.gen.customs
  modifiers,  \* b.modifiers
  last,       \* the latest call: its arguments and its outcome
  streak      \* generation calls made since the latest configuring call (up to 2)

vars == <<T, defaults, customs, modifiers, last, streak>>

-----------------------------------------------------------------------------
(* Bounds of the model *)

\* largest count passed to Generate in Spec
MaxCount == 2
\* largest number of override entries plus registered modifiers
MaxConfigured == 2
\* largest count passed to Generate in SpecAuto
MaxAutoCount == 129

\* width of reflect.Int8
Int8Bits == 8

-----------------------------------------------------------------------------
(* Values: what an interface{} or a reflect.Value holds, tagged with its   *)
(* dynamic type.  Only the slot of the type is used, the others are 0.     *)

StrV(s) == [type |-> "string", s |-> s, n |-> 0, b |-> FALSE]
IntV(n) == [type |-> "int", s |-> <<>>, n |-> n, b |-> FALSE]
Int8V(n) == [type |-> "int8", s |-> <<>>, n |-> n, b |-> FALSE]
BoolV(b) == [type |-> "bool", s |-> <<>>, n |-> 0, b |-> b]
TimeV(n) == [type |-> "time.Time", s |-> <<>>, n |-> n, b |-> FALSE]

\* the zero value of a Go type (var elem T)
ZeroOf(type) ==
  CASE type = "string" -> StrV(<<>>)
    [] type = "int" -> IntV(0)
    [] type = "int8" -> Int8V(0)
    [] type = "bool" -> BoolV(FALSE)
    [] type = "time.Time" -> TimeV(0)

\* reflect.Value.IsZero
IsZero(v) == v = ZeroOf(v.type)

\* reflect.Value.Kind of a value of the given type
KindOf(type) == IF type = "time.Time" THEN "struct" ELSE type

\* reflect.Value.Set accepts a value whose type is assignable to the field's
\* type; none of the modelled types is an interface, so that is identity.
AssignableTo(valType, fieldType) == valType = fieldType

\* int8(x): reflect.Value.SetInt stores int64 x in an int8 field by conversion
Int8Wrap(x) ==
  LET m == x % (2 ^ Int8Bits)
  IN  IF m >= 2 ^ (Int8Bits - 1) THEN m - 2 ^ Int8Bits ELSE m

-----------------------------------------------------------------------------
(* Text helpers *)

UpperLetters == <<"A","B","C","D","E","F","G","H","I","J","K","L","M",
                  "N","O","P","Q","R","S","T","U","V","W","X","Y","Z">>
LowerLetters == <<"a","b","c","d","e","f","g","h","i","j","k","l","m",
                  "n","o","p","q","r","s","t","u","v","w","x","y","z">>

UpperSet == {UpperLetters[k] : k \in 1..Len(UpperLetters)}

IsUpper(c) == c \in UpperSet

\* strings.ToLower
ToLower(s) ==
  [k \in 1..Len(s) |->
     IF IsUpper(s[k])
     THEN LowerLetters[CHOOSE j \in 1..Len(UpperLetters) : UpperLetters[j] = s[k]]
     ELSE s[k]]

DigitChars == <<"0","1","2","3","4","5","6","7","8","9">>

\* the %d verb of fmt.Sprintf, for n >= 0
RECURSIVE Decimal(_)
Decimal(n) ==
  IF n < 10 THEN <<DigitChars[n + 1]>>
  ELSE Decimal(n \div 10) \o <<DigitChars[(n % 10) + 1]>>

-----------------------------------------------------------------------------
(* Target types T.  "User" is a record with exported and unexported        *)
(* fields, "Opaque" a record with no settable field, "Int" is not a record.*)

Types == {"User", "Opaque", "Int"}

Field(name, chars, type) == [name |-> name, chars |-> chars, type |-> type]

\* reflect.Type.Field(i) for i = 0..NumField()-1, in declaration order
UserFields ==
  << Field("Name", <<"N","a","m","e">>, "string"),
     Field("secret", <<"s","e","c","r","e","t">>, "int"),
     Field("Age", <<"A","g","e">>, "int8"),
     Field("Active", <<"A","c","t","i","v","e">>, "bool"),
     Field("Created", <<"C","r","e","a","t","e","d">>, "time.Time") >>

OpaqueFields == << Field("hidden", <<"h","i","d","d","e","n">>, "int") >>

Fields(t) ==
  CASE t = "User" -> UserFields
    [] t = "Opaque" -> OpaqueFields
    [] OTHER -> << >>

IsStruct(t) == t \in {"User", "Opaque"}

FieldNames(t) == {Fields(t)[k].name : k \in 1..Len(Fields(t))}

\* reflect.Value.CanSet of a field of an addressable struct: the field is
\* exported, i.e. its name starts with an upper-case letter
CanSet(f) == IsUpper(f.chars[1])

FieldByName(t, name) ==
  Fields(t)[CHOOSE k \in 1..Len(Fields(t)) : Fields(t)[k].name = name]

ZeroStruct(t) == [name \in FieldNames(t) |-> ZeroOf(FieldByName(t, name).type)]

ZeroUser == ZeroStruct("User")
ZeroOpaque == ZeroStruct("Opaque")

\* var elem T
ZeroElem(t) ==
  CASE t = "User" -> ZeroUser
    [] t = "Opaque" -> ZeroOpaque
    [] OTHER -> IntV(0)

-----------------------------------------------------------------------------
(* Outcomes of a call: it returns (val) or it panics (err) *)

Ok(val) == [status |-> "ok", err |-> "", val |-> val]
Panic(err) == [status |-> "panic", err |-> err, val |-> <<>>]

ErrNotAssignable == "reflect.Set: value is not assignable to the field's type"
ErrNumField == "reflect: call of reflect.Value.NumField on non-struct Value"
ErrMakeslice == "runtime error: makeslice: len out of range"
ErrInterface == "reflect.Value.Interface: value obtained from unexported field"

-----------------------------------------------------------------------------
(* Custom generator functions func(index int) interface{} *)

CustomFns == {"cStr", "cFlaky"}

\* customFn(index)
CallCustom(fn, index) ==
  CASE fn = "cStr" -> StrV(<<"c">> \o Decimal(index))
    [] fn = "cFlaky" -> IF index = 0 THEN StrV(<<"f">>) ELSE IntV(index)

-----------------------------------------------------------------------------
(* Generator *)

\* autoFill: the value it stores in field f at the given index; now is the
\* reading of time.Now()
autoFill(f, index, now) ==
  CASE KindOf(f.type) = "string" ->
         StrV(ToLower(f.chars) \o <<"_">> \o Decimal(index + 1))
    [] KindOf(f.type) = "int" -> IntV(index + 1)
    [] KindOf(f.type) = "int8" -> Int8V(Int8Wrap(index + 1))
    [] KindOf(f.type) = "bool" -> BoolV(index % 2 = 0)
    [] KindOf(f.type) = "struct" ->
         IF f.type = "time.Time" THEN TimeV(now) ELSE ZeroOf(f.type)

\* a Set that leaves the field alone when the value is of another type
SetField_SkipMismatch(v, f, x) ==
  IF AssignableTo(x.type, f.type) THEN Ok([v EXCEPT ![f.name] = x]) ELSE Ok(v)

\* field.Set(reflect.ValueOf(x)) on field f of v
SetField(v, f, x) ==
  IF AssignableTo(x.type, f.type)
  THEN Ok([v EXCEPT ![f.name] = x])
  ELSE Panic(ErrNotAssignable)

\* a loop body that looks in defaults before customs
fillField_DefaultFirst(v, f, index, now) ==
  IF ~CanSet(f) THEN Ok(v)
  ELSE IF f.name \in DOMAIN defaults
  THEN SetField(v, f, defaults[f.name])
  ELSE IF f.name \in DOMAIN customs
  THEN SetField(v, f, CallCustom(customs[f.name], index))
  ELSE Ok([v EXCEPT ![f.name] = autoFill(f, index, now)])

\* the body of fillStruct's loop for field f of v
fillField(v, f, index, now) ==
  IF ~CanSet(f) THEN Ok(v)
  ELSE IF f.name \in DOMAIN customs
  THEN SetField(v, f, CallCustom(customs[f.name], index))
  ELSE IF f.name \in DOMAIN defaults
  THEN SetField(v, f, defaults[f.name])
  ELSE Ok([v EXCEPT ![f.name] = autoFill(f, index, now)])

\* fillStruct's loop from field number k (1-based) on
RECURSIVE fillFields(_, _, _, _, _)
fillFields(t, v, k, index, now) ==
  IF k > Len(Fields(t)) THEN Ok(v)
  ELSE LET step == fillField(v, Fields(t)[k], index, now)
       IN  IF step.status = "panic" THEN step
           ELSE fillFields(t, step.val, k + 1, index, now)

\* fillStruct(v, index): v.NumField() panics unless v is a struct
fillStruct(t, v, index, now) ==
  IF ~IsStruct(t) THEN Panic(ErrNumField)
  ELSE fillFields(t, v, 1, index, now)

\* make([]T, count)
MakeSlice(t, count) ==
  IF count < 0 THEN Panic(ErrMakeslice)
  ELSE Ok([j \in 1..count |-> ZeroElem(t)])

\* the first index of a loop over 0..count-1 whose element panics, the
\* elements being independent of each other
FirstPanic(elems) ==
  LET failed == {i \in DOMAIN elems : elems[i].status = "panic"}
  IN  CHOOSE i \in failed : \A j \in failed : i <= j

\* the for loop of Generator.Generate: result[i] = elem for i = 0..count-1 in
\* turn, abandoned at the first index whose fillStruct panics
GenerateLoop(t, result, count, now) ==
  LET elems == [i \in 0..(count - 1) |-> fillStruct(t, ZeroElem(t), i, now)]
  IN  IF \E i \in DOMAIN elems : elems[i].status = "panic"
      THEN elems[FirstPanic(elems)]
      ELSE Ok([j \in 1..Len(result) |->
                 IF j <= count THEN elems[j - 1].val ELSE result[j]])

\* Generator.Generate(count)
GenerateResult(t, count, now) ==
  LET result == MakeSlice(t, count)
  IN  IF result.status = "panic" THEN result
      ELSE GenerateLoop(t, result.val, count, now)

\* a GenerateOne that fills at index 1
GenerateOneResult_IndexOne(t, now) == fillStruct(t, ZeroElem(t), 1, now)

\* Generator.GenerateOne()
GenerateOneResult(t, now) == fillStruct(t, ZeroElem(t), 0, now)

-----------------------------------------------------------------------------
(* Builder *)

ModifierFns(t) == IF t = "User" THEN {"m1", "m2", "bump"} ELSE {"noop"}

\* modifier(&elem, index)
CallModifier(m, elem, index) ==
  CASE m = "m1" -> [elem EXCEPT !["Name"] = StrV(<<"m","1">>)]
    [] m = "m2" -> [elem EXCEPT !["Name"] = StrV(<<"m","2","_">> \o Decimal(index))]
    [] m = "bump" -> [elem EXCEPT !["Age"] = Int8V(Int8Wrap(@.n + 1))]
    [] m = "noop" -> elem

\* a range over b.modifiers that runs the latest registered modifier first
RECURSIVE applyModifiers_Reversed(_, _, _, _)
applyModifiers_Reversed(mods, k, elem, index) ==
  IF k > Len(mods) THEN elem
  ELSE CallModifier(mods[k], applyModifiers_Reversed(mods, k + 1, elem, index), index)

\* for _, modifier := range b.modifiers, from position k on
RECURSIVE applyModifiers(_, _, _, _)
applyModifiers(mods, k, elem, index) ==
  IF k > Len(mods) THEN elem
  ELSE applyModifiers(mods, k + 1, CallModifier(mods[k], elem, index), index)

\* Builder.generateSingle(index)
generateSingle(t, index, now) ==
  LET filled == fillStruct(t, ZeroElem(t), index, now)
  IN  IF filled.status = "panic" THEN filled
      ELSE Ok(applyModifiers(modifiers, 1, filled.val, index))

\* the for loop of Builder.Generate: result[i] = b.generateSingle(i) for
\* i = 0..count-1 in turn, abandoned at the first index that panics
BuilderGenerateLoop(t, result, count, now) ==
  LET elems == [i \in 0..(count - 1) |-> generateSingle(t, i, now)]
  IN  IF \E i \in DOMAIN elems : elems[i].status = "panic"
      THEN elems[FirstPanic(elems)]
      ELSE Ok([j \in 1..Len(result) |->
                 IF j <= count THEN elems[j - 1].val ELSE result[j]])

\* Builder.Generate(count)
BuilderGenerateResult(t, count, now) ==
  LET result == MakeSlice(t, count)
  IN  IF result.status = "panic" THEN result
      ELSE BuilderGenerateLoop(t, result.val, count, now)

\* Builder.GenerateOne()
BuilderGenerateOneResult(t, now) == generateSingle(t, 0, now)

\* m with key k set to x (m[k] = x on a Go map)
MapSet(m, k, x) == [j \in DOMAIN m \cup {k} |-> IF j = k THEN x ELSE m[j]]

\* the loop of Builder.WithDefaults from field number k on; defs is
\* b.gen.defaults so far.  field.Interface() panics on an unexported field.
RECURSIVE withDefaultsFields(_, _, _, _)
withDefaultsFields(t, proto, k, defs) ==
  IF k > Len(Fields(t)) THEN [status |-> "ok", err |-> "", defs |-> defs]
  ELSE LET f == Fields(t)[k]
       IN  IF ~IsZero(proto[f.name])
           THEN IF ~CanSet(f)
                THEN [status |-> "panic", err |-> ErrInterface, defs |-> defs]
                ELSE withDefaultsFields(t, proto, k + 1,
                                        MapSet(defs, f.name, proto[f.name]))
           ELSE withDefaultsFields(t, proto, k + 1, defs)

\* Builder.WithDefaults(defaults): v.NumField() panics unless T is a struct
WithDefaultsResult(t, proto, defs) ==
  IF ~IsStruct(t) THEN [status |-> "panic", err |-> ErrNumField, defs |-> defs]
  ELSE withDefaultsFields(t, proto, 1, defs)

-----------------------------------------------------------------------------
(* Inputs of the calls *)

Counts == -1..MaxCount
\* readings of time.Now()
Clock == {0, 1}

\* field names passed to SetDefaults
DefaultKeys(t) == IF t = "User" THEN {"Name", "secret", "Age"} ELSE {"hidden"}
\* values passed to SetDefaults
DefaultValues == {StrV(<<"d">>), IntV(9)}
\* field names passed to SetCustom
CustomKeys(t) == IF t = "User" THEN {"Name", "secret"} ELSE {"hidden"}

\* prototypes passed to WithDefaults
UserProtos ==
  {[ZeroUser EXCEPT !["Name"] = StrV(n), !["secret"] = IntV(s), !["Age"] = Int8V(a)] :
     n \in {<<>>, <<"p">>}, s \in {0, 4}, a \in {0, 3}}

OpaqueProtos == {[ZeroOpaque EXCEPT !["hidden"] = IntV(s)] : s \in {0, 4}}

Protos(t) ==
  CASE t = "User" -> UserProtos
    [] t = "Opaque" -> OpaqueProtos
    [] OTHER -> {IntV(0), IntV(4)}

EmptyMap == [k \in {} |-> 0]

Configured(defs, custs, mods) ==
  Cardinality(DOMAIN defs) + Cardinality(DOMAIN custs) + Len(mods)

\* the record of the latest call: its arguments and its outcome
Call(api, count, arg, now, status, err, result) ==
  [api |-> api, count |-> count, arg |-> arg, now |-> now,
   status |-> status, err |-> err, result |-> result]

-----------------------------------------------------------------------------
(* Build[T](): a Builder over New[T](), empty maps and no modifiers *)

Init ==
  /\ T \in Types
  /\ defaults = EmptyMap
  /\ customs = EmptyMap
  /\ modifiers = <<>>
  /\ last = Call("Build", 0, <<>>, 0, "ok", "", <<>>)
  /\ streak = 0

\* Generator.SetDefaults(fieldName, value)
SetDefaults(fieldName, value) ==
  /\ Configured(MapSet(defaults, fieldName, value), customs, modifiers) <= MaxConfigured
  /\ defaults' = MapSet(defaults, fieldName, value)
  /\ last' = Call("SetDefaults", 0, <<fieldName, value>>, 0, "ok", "", <<>>)
  /\ streak' = 0
  /\ UNCHANGED <<T, customs, modifiers>>

\* Generator.SetCustom(fieldName, fn)
SetCustom(fieldName, fn) ==
  /\ Configured(defaults, MapSet(customs, fieldName, fn), modifiers) <= MaxConfigured
  /\ customs' = MapSet(customs, fieldName, fn)
  /\ last' = Call("SetCustom", 0, <<fieldName, fn>>, 0, "ok", "", <<>>)
  /\ streak' = 0
  /\ UNCHANGED <<T, defaults, modifiers>>

\* Builder.With(modifier)
With(modifier) ==
  /\ Configured(defaults, customs, modifiers) < MaxConfigured
  /\ modifiers' = Append(modifiers, modifier)
  /\ last' = Call("With", 0, modifier, 0, "ok", "", <<>>)
  /\ streak' = 0
  /\ UNCHANGED <<T, defaults, customs>>

\* Builder.WithDefaults(defaults)
WithDefaults(proto) ==
  LET r == WithDefaultsResult(T, proto, defaults)
  IN  /\ Configured(r.defs, customs, modifiers) <= MaxConfigured
      /\ defaults' = r.defs
      /\ last' = Call("WithDefaults", 0, proto, 0, r.status, r.err, <<>>)
      /\ streak' = 0
  /\ UNCHANGED <<T, customs, modifiers>>

\* a Generate that keeps the latest auto-synthesized Active as a default
Generate_CachingDefault(count, now) ==
  LET r == GenerateResult(T, count, now)
  IN  /\ last' = Call("Generate", count, <<>>, now, r.status, r.err, r.val)
      /\ streak' = IF streak < 2 THEN streak + 1 ELSE streak
      /\ defaults' = IF r.status = "ok" /\ count > 0 /\ T = "User"
                     THEN MapSet(defaults, "Active", r.val[count]["Active"])
                     ELSE defaults
      /\ UNCHANGED <<T, customs, modifiers>>

\* Generator.Generate(count)
Generate(count, now) ==
  LET r == GenerateResult(T, count, now)
  IN  /\ last' = Call("Generate", count, <<>>, now, r.status, r.err, r.val)
      /\ streak' = IF streak < 2 THEN streak + 1 ELSE streak
      /\ UNCHANGED <<T, defaults, customs, modifiers>>

\* Generator.GenerateOne()
GenerateOne(now) ==
  LET r == GenerateOneResult(T, now)
  IN  /\ last' = Call("GenerateOne", 1, <<>>, now, r.status, r.err, r.val)
      /\ streak' = IF streak < 2 THEN streak + 1 ELSE streak
      /\ UNCHANGED <<T, defaults, customs, modifiers>>

\* Builder.Generate(count)
BuilderGenerate(count, now) ==
  LET r == BuilderGenerateResult(T, count, now)
  IN  /\ last' = Call("Builder.Generate", count, <<>>, now, r.status, r.err, r.val)
      /\ streak' = IF streak < 2 THEN streak + 1 ELSE streak
      /\ UNCHANGED <<T, defaults, customs, modifiers>>

\* Builder.GenerateOne()
BuilderGenerateOne(now) ==
  LET r == BuilderGenerateOneResult(T, now)
  IN  /\ last' = Call("Builder.GenerateOne", 1, <<>>, now, r.status, r.err, r.val)
      /\ streak' = IF streak < 2 THEN streak + 1 ELSE streak
      /\ UNCHANGED <<T, defaults, customs, modifiers>>

Next ==
  \/ \E k \in DefaultKeys(T), x \in DefaultValues : SetDefaults(k, x)
  \/ \E k \in CustomKeys(T), fn \in CustomFns : SetCustom(k, fn)
  \/ \E m \in ModifierFns(T) : With(m)
  \/ \E proto \in Protos(T) : WithDefaults(proto)
  \/ \E count \in Counts, now \in Clock : Generate(count, now)
  \/ \E now \in Clock : GenerateOne(now)
  \/ \E count \in Counts, now \in Clock : BuilderGenerate(count, now)
  \/ \E now \in Clock : BuilderGenerateOne(now)

Spec == Init /\ [][Next]_vars

\* New[T]().Generate(count): one call on a fresh Generator, for counts up to
\* MaxAutoCount
NextAuto ==
  /\ last.api = "Build"
  /\ \E count \in 0..MaxAutoCount, now \in Clock : Generate(count, now)

SpecAuto == Init /\ [][NextAuto]_vars

-----------------------------------------------------------------------------
(* Vocabulary of the properties *)

GeneratorApis == {"Generate", "GenerateOne"}
BuilderApis == {"Builder.Generate", "Builder.GenerateOne"}
SliceApis == {"Generate", "Builder.Generate"}
GenerationApis == GeneratorApis \cup BuilderApis

\* the instances the latest call returned, in order (none when it panicked
\* or was no generation call)
Returned ==
  IF last.api \in GenerationApis /\ last.status = "ok"
  THEN IF last.api \in SliceApis THEN last.result ELSE <<last.result>>
  ELSE <<>>

FieldSet(t) == {Fields(t)[k] : k \in 1..Len(Fields(t))}
Settable(t) == {f \in FieldSet(t) : CanSet(f)}
Unsettable(t) == {f \in FieldSet(t) : ~CanSet(f)}

\* an instance without its timestamp fields
NoTime(inst) ==
  [name \in {f.name : f \in {g \in FieldSet(T) : g.type # "time.Time"}} |-> inst[name]]

\* the override value field f would be assigned at index i is of another type
Mismatch(f, i) ==
  IF f.name \in DOMAIN customs
  THEN ~AssignableTo(CallCustom(customs[f.name], i).type, f.type)
  ELSE f.name \in DOMAIN defaults /\ ~AssignableTo(defaults[f.name].type, f.type)

-----------------------------------------------------------------------------
\* C1: in every instance a Generator call returns, a settable field holds the
\* custom generator's value for the index when customs has the field, else
\* the default when defaults has it, else the auto-synthesized value.
C1_Precedence ==
  last.api \in GeneratorApis =>
    \A i \in 1..Len(Returned) : \A f \in Settable(T) :
      Returned[i][f.name] =
        IF f.name \in DOMAIN customs THEN CallCustom(customs[f.name], i - 1)
        ELSE IF f.name \in DOMAIN defaults THEN defaults[f.name]
        ELSE autoFill(f, i - 1, last.now)

\* Generate(2) returned with both a custom generator and a default on Name
C1_Witness ==
  /\ last.api = "Generate" /\ last.status = "ok" /\ last.count = 2
  /\ "Name" \in DOMAIN customs /\ "Name" \in DOMAIN defaults
  /\ defaults["Name"].type = "string"
  /\ last.result[2]["Name"] # defaults["Name"]

-----------------------------------------------------------------------------
\* C2: on a Generator with no overrides, instance i of Generate(N) has every
\* settable integer field equal to i+1, every settable text field equal to
\* the lowercased field name, "_" and i+1, and every settable boolean field
\* true exactly when i is even.
C2_AutoValues ==
  (last.api = "Generate" /\ DOMAIN customs = {} /\ DOMAIN defaults = {}) =>
    \A j \in 1..Len(Returned) : \A f \in Settable(T) :
      LET x == Returned[j][f.name]
          i == j - 1
      IN  /\ f.type \in {"int", "int8"} => x.n = i + 1
          /\ f.type = "string" => x.s = ToLower(f.chars) \o <<"_">> \o Decimal(i + 1)
          /\ f.type = "bool" => x.b = (i % 2 = 0)

-----------------------------------------------------------------------------
\* the names of the fields that are non-zero in prototype proto
NonZeroFields(proto) == {f.name : f \in {g \in FieldSet(T) : ~IsZero(proto[g.name])}}

\* C3: WithDefaults(proto) adds to defaults exactly the fields that are
\* non-zero in proto, each with proto's value, and leaves the entry of every
\* other field as it was.
C3_WithDefaultsFrame ==
  [][last'.api = "WithDefaults" =>
       /\ DOMAIN defaults' = DOMAIN defaults \cup NonZeroFields(last'.arg)
       /\ \A k \in DOMAIN defaults' :
            defaults'[k] = IF k \in NonZeroFields(last'.arg) THEN last'.arg[k]
                           ELSE defaults[k]]_vars

-----------------------------------------------------------------------------
\* the positions of mods that hold a modifier writing Name
NameWriters(mods) == {k \in 1..Len(mods) : mods[k] \in {"m1", "m2"}}
Max(S) == CHOOSE k \in S : \A j \in S : j <= k

\* C4: in every instance a Builder call returns, each registered modifier
\* has run once, in registration order, on the fully resolved instance: Name
\* holds what the last registered writer of Name stores (else its resolved
\* value), Age is its resolved value plus one per registered bump, and the
\* other fields are as resolved; With appends to the modifier sequence.
C4_ModifiersInOrder ==
  /\ [](last.api \in BuilderApis /\ T = "User" =>
          \A i \in 1..Len(Returned) :
            LET filled == fillStruct(T, ZeroElem(T), i - 1, last.now).val
                got == Returned[i]
                w == NameWriters(modifiers)
                bumps == Cardinality({k \in 1..Len(modifiers) : modifiers[k] = "bump"})
            IN  /\ got["Name"] =
                     IF w = {} THEN filled["Name"]
                     ELSE CallModifier(modifiers[Max(w)], filled, i - 1)["Name"]
                /\ got["Age"] = Int8V(Int8Wrap(filled["Age"].n + bumps))
                /\ \A f \in FieldSet(T) :
                     f.name \notin {"Name", "Age"} => got[f.name] = filled[f.name])
  /\ [][last'.api = "With" => modifiers' = Append(modifiers, last'.arg)]_vars

\* Builder.Generate(2) returned with m1 then m2 registered
C4_Witness ==
  /\ last.api = "Builder.Generate" /\ last.status = "ok" /\ last.count = 2
  /\ modifiers = <<"m1", "m2">>
  /\ last.result[2]["Name"] = StrV(<<"m", "2", "_", "1">>)

-----------------------------------------------------------------------------
\* C5: for a record type with an unexported and an exported field, every
\* returned instance has its unexported fields at their zero value, whatever
\* overrides carry their names, and WithDefaults raises no error, also for a
\* prototype whose unexported field is set.
C5_UnexportedInert ==
  (Settable(T) # {} /\ Unsettable(T) # {}) =>
    /\ \A i \in 1..Len(Returned) : \A f \in Unsettable(T) :
         Returned[i][f.name] = ZeroOf(f.type)
    /\ last.api = "WithDefaults" => last.status = "ok"

-----------------------------------------------------------------------------
\* C6: a generation call that reaches an index where the override value of a
\* settable field (the custom generator's, else the default) is not
\* assignable to the field fails with the type-mismatch panic and returns
\* no instance.
C6_TypeMismatchFails ==
  (/\ last.api \in GenerationApis
   /\ \E i \in 0..(last.count - 1) : \E f \in Settable(T) : Mismatch(f, i)) =>
    /\ last.status = "panic"
    /\ last.err = ErrNotAssignable
    /\ Returned = <<>>

\* Generate(2) failed at index 1, index 0 being assignable
C6_Witness ==
  /\ last.api = "Generate" /\ last.count = 2
  /\ \A f \in Settable(T) : ~Mismatch(f, 0)
  /\ \E f \in Settable(T) : Mismatch(f, 1)
  /\ last.status = "panic"

-----------------------------------------------------------------------------
\* C7: Generate with a negative count returns the empty sequence, on
\* Generator and on Builder.
C7_NegativeCountEmpty ==
  (last.api \in SliceApis /\ last.count < 0) =>
    (last.status = "ok" /\ Returned = <<>>)

-----------------------------------------------------------------------------
\* what the one-instance call of the same component gives at the same clock
\* reading, and what Generate(1) of it gives
OneOf(api) ==
  IF api \in GeneratorApis THEN GenerateOneResult(T, last.now)
  ELSE BuilderGenerateOneResult(T, last.now)
SliceOf(api, count) ==
  IF api \in GeneratorApis THEN GenerateResult(T, count, last.now)
  ELSE BuilderGenerateResult(T, count, last.now)

\* C8: Generate(0) returns the empty sequence; a Generate(N) that returns,
\* returns N instances, the one at position i equal (timestamps apart) to
\* the instance GenerateOne-style resolution gives at index i; GenerateOne
\* and Generate(1) fail together or return the same instance.
C8_CountsAndGenerateOne ==
  /\ (last.api \in SliceApis /\ last.count = 0) =>
       (last.status = "ok" /\ last.result = <<>>)
  /\ (last.api \in SliceApis /\ last.status = "ok") =>
       /\ Len(last.result) = last.count
       /\ \A i \in 1..Len(last.result) :
            LET single == IF last.api = "Generate"
                          THEN fillStruct(T, ZeroElem(T), i - 1, last.now)
                          ELSE generateSingle(T, i - 1, last.now)
            IN  single.status = "ok" /\ NoTime(last.result[i]) = NoTime(single.val)
  /\ (last.api \in SliceApis /\ last.count = 1) =>
       LET one == OneOf(last.api)
       IN  /\ one.status = last.status
           /\ last.status = "ok" => NoTime(last.result[1]) = NoTime(one.val)
  /\ (last.api \in GenerationApis \ SliceApis) =>
       LET slice == SliceOf(last.api, 1)
       IN  /\ slice.status = last.status
           /\ last.status = "ok" => NoTime(slice.val[1]) = NoTime(last.result)

\* GenerateOne returned on a Builder with an override and a modifier set
C8_Witness ==
  /\ last.api = "Builder.GenerateOne" /\ last.status = "ok" /\ T = "User"
  /\ DOMAIN customs # {} /\ modifiers # <<>>

-----------------------------------------------------------------------------
\* C9: a generation call leaves defaults and customs unchanged, and a
\* generation call that follows one of the same method and count returns
\* the same outcome, timestamps apart.
C9_Deterministic ==
  /\ [][last'.api \in GenerationApis =>
          (defaults' = defaults /\ customs' = customs)]_vars
  /\ [][(/\ last.api \in GenerationApis
         /\ last'.api = last.api
         /\ last'.count = last.count) =>
          /\ last'.status = last.status
          /\ last'.err = last.err
          /\ (last.status = "ok" /\ last.api \in SliceApis) =>
               /\ Len(last'.result) = Len(last.result)
               /\ \A i \in 1..Len(last.result) :
                    NoTime(last'.result[i]) = NoTime(last.result[i])
          /\ (last.status = "ok" /\ last.api \notin SliceApis) =>
               NoTime(last'.result) = NoTime(last.result)]_vars

\* a second Generate(2) in a row returned, at a later clock reading, on a
\* Generator with a custom generator and a default
C9_Witness ==
  /\ streak = 2 /\ last.api = "Generate" /\ last.status = "ok" /\ last.count = 2
  /\ last.now = 1 /\ T = "User"
  /\ DOMAIN customs # {} /\ DOMAIN defaults # {}

-----------------------------------------------------------------------------
\* C10: for a type with no settable field, or one that is no record, the
\* generation calls and WithDefaults complete, and the generation calls
\* return the requested number of instances, each at its zero value.
C10_MalformedTypeDefined ==
  (/\ Settable(T) = {}
   /\ last.api \in GenerationApis \cup {"WithDefaults"}
   /\ last.count >= 0) =>
    /\ last.status = "ok"
    /\ last.api \in GenerationApis =>
         /\ Len(Returned) = last.count
         /\ \A i \in 1..Len(Returned) : Returned[i] = ZeroElem(T)

====
